---- MODULE Spec2Model ----
(***************************************************************************)
(* Model of the cnosdb query dispatcher                                    *)
(* (query_server/query/src/dispatcher/manager.rs): the builder, the        *)
(* admission semaphore and the per-statement loop of execute_query, with   *)
(* the per-statement QueryStateMachine observed as the list of states      *)
(* marked on it; the table schema model (common/models/src/schema.rs) and   *)
(* the DDL task dispatch (query_server/query/src/execution/ddl/mod.rs),    *)
(* each under a specification of its own.                                  *)
(***************************************************************************)
EXTENDS Naturals, Integers, Sequences, FiniteSets, TLC

\* ---------------------------------------------------------------- bounds
\* Number of execute_query calls (each call has its own QueryId).
NumQueries == 2
\* Largest value handed to with_queries_limit.
MaxLimit == 2
\* Largest number of statements the parser returns for one query.
MaxStmts == 2

\* Largest column id handed to the schema.
MaxId == 2
\* Longest column list handed to TskvTableSchema::new.
MaxNewCols == 2

\* Longest text (in characters) handed to Duration::new.
MaxTextLen == 2

Queries == 1..NumQueries

\* ------------------------------------------------------------ data types
\* The statements a query text parses to, in textual order (ExtStatement
\* variants); a text with n statements parses to the first n of them.
Statements ==
    <<"CreateDatabase", "CreateTable", "DescribeTable", "ShowTables",
      "DescribeDatabase", "ShowDatabases", "Drop", "CreateExternalTable">>

\* The output of one statement (spi::query::execution::Output).
Output(stmt) == [of |-> stmt]

\* QueryError variants.
QueryError ==
    {"BuildQueryDispatcher", "LogicalPlanner", "LogicalOptimize",
     "PhysicalPlaner", "Parser", "Analyzer", "Optimizer", "Schedule",
     "Execution", "RequestLimit"}

\* Result<Vec<Output>>: Ok(outputs) or Err(kind{err}); NoResult before return.
NoResult == [kind |-> "None", err |-> "", outputs |-> <<>>]
Ok(outs) == [kind |-> "Ok", err |-> "", outputs |-> outs]
Err(kind, e) == [kind |-> kind, err |-> e, outputs |-> <<>>]

\* What the parser collaborator may answer for a query text.
ParserResults ==
    {[ok |-> FALSE, statements |-> <<>>]} \cup
    {[ok |-> TRUE, statements |-> SubSeq(Statements, 1, n)] : n \in 0..MaxStmts}

\* The error kinds QueryExecution::start may return (DDLExecution::start wraps
\* every task error into Execution; the SQL path reports its own stages).
ExecutionErrors == {"Execution", "Schedule"}

\* ------------------------------------------------------------- variables
VARIABLES
    builder,        \* SimpleQueryDispatcherBuilder: which Option fields are Some, and queries_limit
    limitSupplied,  \* whether with_queries_limit was ever called on the builder
    dispatcher,     \* result of build(): NoResult, Ok or Err(BuildQueryDispatcher)
    limit,          \* the size the semaphore was constructed with
    permits,        \* queries_limit_semaphore: available permits
    pc,             \* position of each execute_query call
    held,           \* whether the call owns `_permit`
    session,        \* the call's session context ("none" until created)
    parserCalls,    \* times the call invoked parser.parse
    stmts,          \* `statements`
    idx,            \* index of the statement of the current loop iteration
    results,        \* `results`
    trackers,       \* per statement begun, the states marked on its QueryStateMachine
    planCalls,      \* times the call invoked create_logical_plan
    execCalls,      \* times the call invoked create_query_execution(..).start()
    failure,        \* the first collaborator failure of the call
    ret,            \* what execute_query returned
    schema,         \* a TskvTableSchema: columns and columns_index
    lastCall,       \* the last call made on the schema
    conv,           \* a TableColumn, its ArrowField and the ColumnType read back
    dur,            \* a text and what Duration::new made of it
    ddl             \* a DDLExecution: its plan, the tasks created and run, its result

vars ==
    <<builder, limitSupplied, dispatcher, limit, permits, pc, held, session,
      parserCalls, stmts, idx, results, trackers, planCalls, execCalls,
      failure, ret, schema, lastCall, conv, dur, ddl>>

builderVars == <<builder, limitSupplied>>
dispatcherVars == <<dispatcher, limit>>
queryVars ==
    <<permits, pc, held, session, parserCalls, stmts, idx, results, trackers,
      planCalls, execCalls, failure, ret>>
\* The dispatcher does not touch these, nor they the dispatcher.
modelVars == <<schema, lastCall, conv, dur, ddl>>
allDispatcherVars == <<builderVars, dispatcherVars, queryVars>>

\* --------------------------------------------------------------- builder
\* #[derive(Default)]: every Option is None and queries_limit is 0.
BuilderDefault ==
    [metadata |-> FALSE, session_factory |-> FALSE, parser |-> FALSE,
     optimizer |-> FALSE, scheduler |-> FALSE, queries_limit |-> 0]

NotBuilt == dispatcher.kind = "None"
Built == dispatcher.kind = "Ok"

with_metadata ==
    /\ NotBuilt
    /\ builder' = [builder EXCEPT !.metadata = TRUE]
    /\ UNCHANGED <<limitSupplied, dispatcherVars, queryVars>>
    /\ UNCHANGED modelVars

with_session_factory ==
    /\ NotBuilt
    /\ builder' = [builder EXCEPT !.session_factory = TRUE]
    /\ UNCHANGED <<limitSupplied, dispatcherVars, queryVars>>
    /\ UNCHANGED modelVars

with_parser ==
    /\ NotBuilt
    /\ builder' = [builder EXCEPT !.parser = TRUE]
    /\ UNCHANGED <<limitSupplied, dispatcherVars, queryVars>>
    /\ UNCHANGED modelVars

with_optimizer ==
    /\ NotBuilt
    /\ builder' = [builder EXCEPT !.optimizer = TRUE]
    /\ UNCHANGED <<limitSupplied, dispatcherVars, queryVars>>
    /\ UNCHANGED modelVars

with_scheduler ==
    /\ NotBuilt
    /\ builder' = [builder EXCEPT !.scheduler = TRUE]
    /\ UNCHANGED <<limitSupplied, dispatcherVars, queryVars>>
    /\ UNCHANGED modelVars

with_queries_limit(l) ==
    /\ NotBuilt
    /\ builder' = [builder EXCEPT !.queries_limit = l]
    /\ limitSupplied' = TRUE
    /\ UNCHANGED <<dispatcherVars, queryVars>>
    /\ UNCHANGED modelVars

\* build(): the chain of ok_or_else(..)? in source order, then Semaphore::new.
BuildResult(b) ==
    IF ~b.metadata THEN Err("BuildQueryDispatcher", "lost of metadata")
    ELSE IF ~b.session_factory THEN Err("BuildQueryDispatcher", "lost of session_factory")
    ELSE IF ~b.parser THEN Err("BuildQueryDispatcher", "lost of parser")
    ELSE IF ~b.optimizer THEN Err("BuildQueryDispatcher", "lost of optimizer")
    ELSE IF ~b.scheduler THEN Err("BuildQueryDispatcher", "lost of scheduler")
    ELSE Ok(<<>>)

build ==
    /\ NotBuilt
    /\ dispatcher' = BuildResult(builder)
    /\ IF BuildResult(builder).kind = "Ok"
         THEN /\ limit' = builder.queries_limit
              /\ permits' = builder.queries_limit
         ELSE UNCHANGED <<limit, permits>>
    /\ UNCHANGED <<builderVars, pc, held, session, parserCalls, stmts, idx,
                   results, trackers, planCalls, execCalls, failure, ret>>
    /\ UNCHANGED modelVars

\* --------------------------------------------- per-statement lifecycle tracker
\* QueryStateMachine (spi::query::execution): the tracker is observed as the
\* list of the states marked on it, oldest first.
QueryStateMachine_begin == <<"Created">>
begin_analyze(h) == Append(h, "Analyzing")
end_analyze(h) == Append(h, "Analyzed")
begin_execute(h) == Append(h, "Executing")
end_execute(h, ok) == Append(h, IF ok THEN "Succeeded" ELSE "Failed")

\* The tracker of the current loop iteration is the one constructed last.
CurTracker(q) == trackers[q][Len(trackers[q])]
SetCurTracker(q, h) ==
    trackers' = [trackers EXCEPT ![q] = [@ EXCEPT ![Len(@)] = h]]

NoFailure == [stage |-> "none", at |-> 0]
\* The first collaborator failure of a call is the one remembered.
RecordFailure(q, stage, at) ==
    failure' = [failure EXCEPT ![q] =
                   IF @.stage = "none" THEN [stage |-> stage, at |-> at] ELSE @]

\* ------------------------------------------------------------ dispatcher
\* Return, were the permit forgotten instead of dropped.
Return_noRelease(q, r) ==
    /\ pc' = [pc EXCEPT ![q] = "done"]
    /\ ret' = [ret EXCEPT ![q] = r]
    /\ held' = [held EXCEPT ![q] = FALSE]
    /\ permits' = permits

\* Return, were the permit given back on the Ok path only.
Return_leakOnError(q, r) ==
    /\ pc' = [pc EXCEPT ![q] = "done"]
    /\ ret' = [ret EXCEPT ![q] = r]
    /\ held' = [held EXCEPT ![q] = FALSE]
    /\ permits' = IF held[q] /\ r.kind = "Ok" THEN permits + 1 ELSE permits

\* Leaving execute_query with value r: the locals are dropped, `_permit`
\* among them, which gives its permit back to the semaphore.
Return(q, r) ==
    /\ pc' = [pc EXCEPT ![q] = "done"]
    /\ ret' = [ret EXCEPT ![q] = r]
    /\ held' = [held EXCEPT ![q] = FALSE]
    /\ permits' = IF held[q] THEN permits + 1 ELSE permits

\* TryAcquire, were the last permit never handed out.
TryAcquire_offByOne(q) ==
    /\ Built
    /\ pc[q] = "idle"
    /\ \/ /\ permits > 1
          /\ permits' = permits - 1
          /\ held' = [held EXCEPT ![q] = TRUE]
          /\ pc' = [pc EXCEPT ![q] = "admitted"]
          /\ UNCHANGED <<ret, session>>
       \/ /\ permits <= 1
          /\ Return(q, Err("RequestLimit", ""))
          /\ UNCHANGED session
    /\ UNCHANGED <<builderVars, dispatcherVars, parserCalls, stmts,
                   idx, results, trackers, planCalls, execCalls, failure>>
    /\ UNCHANGED modelVars

\* TryAcquire, were the session built before the permit is asked for.
TryAcquire_lateReject(q) ==
    /\ Built
    /\ pc[q] = "idle"
    /\ session' = [session EXCEPT ![q] = "created"]
    /\ \/ /\ permits > 0
          /\ permits' = permits - 1
          /\ held' = [held EXCEPT ![q] = TRUE]
          /\ pc' = [pc EXCEPT ![q] = "admitted"]
          /\ UNCHANGED ret
       \/ /\ permits = 0
          /\ Return(q, Err("RequestLimit", ""))
    /\ UNCHANGED <<builderVars, dispatcherVars, parserCalls, stmts,
                   idx, results, trackers, planCalls, execCalls, failure>>
    /\ UNCHANGED modelVars

\* execute_query, entry: queries_limit_semaphore.try_acquire().  The
\* semaphore is never closed, so the panic arm is unreachable.
TryAcquire(q) ==
    /\ Built
    /\ pc[q] = "idle"
    /\ \/ /\ permits > 0
          /\ permits' = permits - 1
          /\ held' = [held EXCEPT ![q] = TRUE]
          /\ pc' = [pc EXCEPT ![q] = "admitted"]
          /\ UNCHANGED ret
       \/ /\ permits = 0
          /\ Return(q, Err("RequestLimit", ""))
    /\ UNCHANGED <<builderVars, dispatcherVars, session, parserCalls, stmts,
                   idx, results, trackers, planCalls, execCalls, failure>>
    /\ UNCHANGED modelVars

\* execute_query up to the loop: results = vec![], the session, the catalog
\* view and the logical planner are built, then parser.parse(..)?.
Parse(q) ==
    /\ pc[q] = "admitted"
    /\ session' = [session EXCEPT ![q] = "created"]
    /\ parserCalls' = [parserCalls EXCEPT ![q] = @ + 1]
    /\ \E r \in ParserResults :
         IF r.ok
           THEN /\ stmts' = [stmts EXCEPT ![q] = r.statements]
                /\ pc' = [pc EXCEPT ![q] = "loop"]
                /\ UNCHANGED <<permits, held, ret, failure>>
           ELSE /\ RecordFailure(q, "parse", 0)
                /\ Return(q, Err("Parser", ""))
                /\ UNCHANGED stmts
    /\ UNCHANGED <<builderVars, dispatcherVars, idx, results, trackers,
                   planCalls, execCalls>>
    /\ UNCHANGED modelVars

\* Loop head with a statement left: QueryStateMachine::begin(query, session,
\* metadata) builds the tracker of this iteration.
BeginStatement(q) ==
    /\ pc[q] = "loop"
    /\ idx[q] < Len(stmts[q])
    /\ idx' = [idx EXCEPT ![q] = @ + 1]
    /\ trackers' = [trackers EXCEPT ![q] = Append(@, QueryStateMachine_begin)]
    /\ pc' = [pc EXCEPT ![q] = "created"]
    /\ UNCHANGED <<builderVars, dispatcherVars, permits, held, session,
                   parserCalls, stmts, results, planCalls, execCalls, failure,
                   ret>>
    /\ UNCHANGED modelVars

\* execute_statement: query_state_machine.begin_analyze().
BeginAnalyze(q) ==
    /\ pc[q] = "created"
    /\ SetCurTracker(q, begin_analyze(CurTracker(q)))
    /\ pc' = [pc EXCEPT ![q] = "analyzing"]
    /\ UNCHANGED <<builderVars, dispatcherVars, permits, held, session,
                   parserCalls, stmts, idx, results, planCalls, execCalls,
                   failure, ret>>
    /\ UNCHANGED modelVars

\* Plan, were a planning error skipped and the loop continued.
Plan_continue(q) ==
    /\ pc[q] = "analyzing"
    /\ planCalls' = [planCalls EXCEPT ![q] = @ + 1]
    /\ \/ /\ SetCurTracker(q, end_analyze(CurTracker(q)))
          /\ pc' = [pc EXCEPT ![q] = "analyzed"]
          /\ UNCHANGED failure
       \/ /\ RecordFailure(q, "plan", idx[q])
          /\ pc' = [pc EXCEPT ![q] = "loop"]
          /\ UNCHANGED trackers
    /\ UNCHANGED <<builderVars, dispatcherVars, permits, held, ret, session,
                   parserCalls, stmts, idx, results, execCalls>>
    /\ UNCHANGED modelVars

\* Plan, were end_analyze() left out.
Plan_noEndAnalyze(q) ==
    /\ pc[q] = "analyzing"
    /\ planCalls' = [planCalls EXCEPT ![q] = @ + 1]
    /\ \/ /\ pc' = [pc EXCEPT ![q] = "analyzed"]
          /\ UNCHANGED <<permits, held, ret, failure>>
       \/ /\ RecordFailure(q, "plan", idx[q])
          /\ Return(q, Err("LogicalPlanner", ""))
    /\ UNCHANGED <<builderVars, dispatcherVars, session, parserCalls, stmts,
                   idx, results, execCalls, trackers>>
    /\ UNCHANGED modelVars

\* execute_statement: create_logical_plan(..).context(LogicalPlannerSnafu)?
\* and, when it succeeded, query_state_machine.end_analyze().
Plan(q) ==
    /\ pc[q] = "analyzing"
    /\ planCalls' = [planCalls EXCEPT ![q] = @ + 1]
    /\ \/ /\ SetCurTracker(q, end_analyze(CurTracker(q)))
          /\ pc' = [pc EXCEPT ![q] = "analyzed"]
          /\ UNCHANGED <<permits, held, ret, failure>>
       \/ /\ RecordFailure(q, "plan", idx[q])
          /\ Return(q, Err("LogicalPlanner", ""))
          /\ UNCHANGED trackers
    /\ UNCHANGED <<builderVars, dispatcherVars, session, parserCalls, stmts,
                   idx, results, execCalls>>
    /\ UNCHANGED modelVars

\* StartExecution, were the execution spawned and not awaited.
StartExecution_noAwait(q) ==
    /\ pc[q] = "analyzed"
    /\ execCalls' = [execCalls EXCEPT ![q] = @ + 1]
    /\ SetCurTracker(q, begin_execute(CurTracker(q)))
    /\ pc' = [pc EXCEPT ![q] = "loop"]
    /\ UNCHANGED <<builderVars, dispatcherVars, permits, held, session,
                   parserCalls, stmts, idx, results, planCalls, failure, ret>>
    /\ UNCHANGED modelVars

\* execute_statement: create_query_execution(plan, tracker).start(), up to
\* its await: the execution stage marks Executing and runs the engine.
StartExecution(q) ==
    /\ pc[q] = "analyzed"
    /\ execCalls' = [execCalls EXCEPT ![q] = @ + 1]
    /\ SetCurTracker(q, begin_execute(CurTracker(q)))
    /\ pc' = [pc EXCEPT ![q] = "executing"]
    /\ UNCHANGED <<builderVars, dispatcherVars, permits, held, session,
                   parserCalls, stmts, idx, results, planCalls, failure, ret>>
    /\ UNCHANGED modelVars

\* FinishExecution, were the outputs collected so far returned on an error.
FinishExecution_partial(q) ==
    /\ pc[q] = "executing"
    /\ \/ /\ SetCurTracker(q, end_execute(CurTracker(q), TRUE))
          /\ results' = [results EXCEPT ![q] = Append(@, Output(stmts[q][idx[q]]))]
          /\ pc' = [pc EXCEPT ![q] = "loop"]
          /\ UNCHANGED <<permits, held, ret, failure>>
       \/ /\ Return(q, Ok(results[q]))
          /\ SetCurTracker(q, end_execute(CurTracker(q), FALSE))
          /\ RecordFailure(q, "exec", idx[q])
          /\ UNCHANGED results
    /\ UNCHANGED <<builderVars, dispatcherVars, session, parserCalls, stmts,
                   idx, planCalls, execCalls>>
    /\ UNCHANGED modelVars

\* The await of start() completes: the execution stage marks the terminal
\* state; execute_query pushes the output, or leaves with the error (`?`).
FinishExecution(q) ==
    /\ pc[q] = "executing"
    /\ \/ /\ SetCurTracker(q, end_execute(CurTracker(q), TRUE))
          /\ results' = [results EXCEPT ![q] = Append(@, Output(stmts[q][idx[q]]))]
          /\ pc' = [pc EXCEPT ![q] = "loop"]
          /\ UNCHANGED <<permits, held, ret, failure>>
       \/ /\ \E k \in ExecutionErrors : Return(q, Err(k, ""))
          /\ SetCurTracker(q, end_execute(CurTracker(q), FALSE))
          /\ RecordFailure(q, "exec", idx[q])
          /\ UNCHANGED results
    /\ UNCHANGED <<builderVars, dispatcherVars, session, parserCalls, stmts,
                   idx, planCalls, execCalls>>
    /\ UNCHANGED modelVars

\* Loop exhausted: Ok(results).
ReturnOk(q) ==
    /\ pc[q] = "loop"
    /\ idx[q] = Len(stmts[q])
    /\ Return(q, Ok(results[q]))
    /\ UNCHANGED <<builderVars, dispatcherVars, session, parserCalls, stmts,
                   idx, results, trackers, planCalls, execCalls, failure>>
    /\ UNCHANGED modelVars


\* ------------------------------------------------------------ table schema
\* ColumnType: Tag | Time | Field(ValueType).
ValueTypes == {"Float", "Integer", "Unsigned", "Boolean", "String", "Unknown"}
Tag == [kind |-> "Tag", value |-> "-"]
Time == [kind |-> "Time", value |-> "-"]
Field(v) == [kind |-> "Field", value |-> v]
ColumnTypes == {Tag, Time} \cup {Field(v) : v \in ValueTypes}

\* TableColumn::new.
TableColumn_new(id, name, column_type, encoding) ==
    [id |-> id, name |-> name, column_type |-> column_type, encoding |-> encoding]

\* The columns handed to a schema: tag, time and field columns of any name
\* and id, all with the default encoding (no schema operation reads it).
ColumnNames == {"time", "cpu"}
SchemaColumns ==
    {TableColumn_new(id, n, t, "Default") :
        id \in 1..MaxId, n \in ColumnNames, t \in {Tag, Time, Field("Float")}}

\* All column lists of length at most n.
RECURSIVE ColumnLists(_)
ColumnLists(n) ==
    IF n = 0 THEN {<<>>}
    ELSE LET shorter == ColumnLists(n - 1)
         IN shorter \cup {Append(l, c) : l \in {x \in shorter : Len(x) = n - 1},
                                         c \in SchemaColumns}

\* HashMap::insert.
MapInsert(m, key, v) ==
    [x \in (DOMAIN m) \cup {key} |-> IF x = key THEN v ELSE m[x]]
EmptyMap == [x \in {} |-> 0]

\* TskvTableSchema::default.
TskvTableSchema_default == [columns |-> <<>>, columns_index |-> EmptyMap]

\* new: columns.iter().enumerate().map(|(idx, e)| (e.name, idx)).collect(),
\* the pairs inserted in list order into the map (positions count from 0).
RECURSIVE CollectIndex(_, _)
CollectIndex(cols, k) ==
    IF k = 0 THEN EmptyMap
    ELSE MapInsert(CollectIndex(cols, k - 1), cols[k].name, k - 1)

TskvTableSchema_new(cols) ==
    [columns |-> cols, columns_index |-> CollectIndex(cols, Len(cols))]

\* add_column, were the entry overwritten when the name is known.
add_column_overwrite(s, col) ==
    [columns |-> Append(s.columns, col),
     columns_index |-> MapInsert(s.columns_index, col.name, Len(s.columns))]

\* add_column: columns_index.entry(name).or_insert_with(push; len - 1).
add_column(s, col) ==
    IF col.name \in DOMAIN s.columns_index
      THEN s
      ELSE [columns |-> Append(s.columns, col),
            columns_index |->
                MapInsert(s.columns_index, col.name, Len(s.columns) + 1 - 1)]

\* Option<&TableColumn>.
None == [some |-> FALSE, col |-> TableColumn_new(0, "", Tag, "Default")]
Some(c) == [some |-> TRUE, col |-> c]

\* column(name): the index is followed with get_unchecked; a position outside
\* the list is undefined behaviour, shown here as no column at all.
column(s, name) ==
    IF name \in DOMAIN s.columns_index
      THEN IF s.columns_index[name] < Len(s.columns)
             THEN Some(s.columns[s.columns_index[name] + 1])
             ELSE [some |-> TRUE, col |-> TableColumn_new(0, "undefined", Tag, "Default")]
      ELSE None

\* column_index(name), as a set holding the position when there is one.
column_index(s, name) ==
    IF name \in DOMAIN s.columns_index THEN {s.columns_index[name]} ELSE {}

\* column_by_index(idx): columns.get(idx).
column_by_index(s, i) ==
    IF i < Len(s.columns) THEN Some(s.columns[i + 1]) ELSE None

\* field_num: the columns that are neither Tag nor Time, counted in a loop.
RECURSIVE CountFields(_, _)
CountFields(cols, k) ==
    IF k = 0 THEN 0
    ELSE CountFields(cols, k - 1)
         + (IF cols[k].column_type # Tag /\ cols[k].column_type # Time THEN 1 ELSE 0)

field_num(s) == CountFields(s.columns, Len(s.columns))

\* fields_id, first loop: the ids of those columns, in list order.
RECURSIVE FieldIds(_, _)
FieldIds(cols, k) ==
    IF k = 0 THEN <<>>
    ELSE IF cols[k].column_type # Tag /\ cols[k].column_type # Time
           THEN Append(FieldIds(cols, k - 1), cols[k].id)
           ELSE FieldIds(cols, k - 1)

\* ans.sort(): ascending, by insertion.
RECURSIVE InsertSorted(_, _)
InsertSorted(sorted, x) ==
    IF sorted = <<>> THEN <<x>>
    ELSE IF x < sorted[1] THEN <<x>> \o sorted
    ELSE <<sorted[1]>> \o InsertSorted(Tail(sorted), x)

RECURSIVE Sort(_)
Sort(l) == IF l = <<>> THEN <<>> ELSE InsertSorted(Sort(Tail(l)), l[1])

\* fields_id, second loop: map.insert(id, i) for (i, id) in the sorted ids.
RECURSIVE EnumerateInto(_, _)
EnumerateInto(ids, k) ==
    IF k = 0 THEN EmptyMap
    ELSE MapInsert(EnumerateInto(ids, k - 1), ids[k], k - 1)

\* fields_id, were the ids not sorted.
fields_id_unsorted(s) ==
    LET ids == FieldIds(s.columns, Len(s.columns))
    IN EnumerateInto(ids, Len(ids))

fields_id(s) ==
    LET ids == Sort(FieldIds(s.columns, Len(s.columns)))
    IN EnumerateInto(ids, Len(ids))

NoCall == [op |-> "default", existed |-> FALSE]

\* TskvTableSchema::new(db, name, columns).
New(cols) ==
    /\ lastCall.op = "default"
    /\ schema' = TskvTableSchema_new(cols)
    /\ lastCall' = [op |-> "new", existed |-> FALSE]
    /\ UNCHANGED <<allDispatcherVars, conv, dur, ddl>>

\* schema.add_column(col).
AddColumn(col) ==
    /\ lastCall.op # "default"
    /\ schema' = add_column(schema, col)
    /\ lastCall' = [op |-> "add_column",
                    existed |-> \E i \in 1..Len(schema.columns) :
                                    schema.columns[i].name = col.name]
    /\ UNCHANGED <<allDispatcherVars, conv, dur, ddl>>

\* ------------------------------------------- column type <-> physical type
\* The physical (Arrow) data types: the seven the mapping produces and some it
\* does not.
ArrowDataTypes ==
    {"Utf8", "Timestamp(Nanosecond, None)", "Float64", "Int64", "UInt64",
     "Boolean", "Null", "Int32", "Float32", "LargeUtf8",
     "Timestamp(Millisecond, None)"}

\* impl From<ColumnType> for ArrowDataType.
ArrowDataType_from(t) ==
    CASE t = Tag -> "Utf8"
      [] t = Time -> "Timestamp(Nanosecond, None)"
      [] t = Field("Float") -> "Float64"
      [] t = Field("Integer") -> "Int64"
      [] t = Field("Unsigned") -> "UInt64"
      [] t = Field("String") -> "Utf8"
      [] t = Field("Boolean") -> "Boolean"
      [] OTHER -> "Null"

\* Result<ColumnType, &'static str>.
NoColumnType == [kind |-> "-", value |-> "-"]
TypeOk(t) == [ok |-> TRUE, value |-> t, err |-> ""]
TypeErr(e) == [ok |-> FALSE, value |-> NoColumnType, err |-> e]

ColumnType_try_from_signless(value) ==
    CASE value = "Float64" -> TypeOk(Field("Float"))
      [] value = "Int64" -> TypeOk(Field("Unsigned"))
      [] value = "UInt64" -> TypeOk(Field("Unsigned"))
      [] value = "Utf8" -> TypeOk(Field("String"))
      [] value = "Boolean" -> TypeOk(Field("Boolean"))
      [] OTHER -> TypeErr("Error field type not supported")

\* impl TryFrom<ArrowDataType> for ColumnType.
ColumnType_try_from(value) ==
    CASE value = "Float64" -> TypeOk(Field("Float"))
      [] value = "Int64" -> TypeOk(Field("Integer"))
      [] value = "UInt64" -> TypeOk(Field("Unsigned"))
      [] value = "Utf8" -> TypeOk(Field("String"))
      [] value = "Boolean" -> TypeOk(Field("Boolean"))
      [] OTHER -> TypeErr("Error field type not supported")

is_tag(t) == t = Tag
nullable(c) == c.column_type # Time

\* u32::to_string and bool::to_string: the decimal digits, "true" / "false".
Digits == <<"0", "1", "2", "3", "4", "5", "6", "7", "8", "9">>
RECURSIVE u32_to_string(_)
u32_to_string(n) ==
    IF n < 10 THEN <<Digits[n + 1]>>
    ELSE Append(u32_to_string(n \div 10), Digits[(n % 10) + 1])
bool_to_string(b) == IF b THEN "true" ELSE "false"

\* An ArrowField: name, data type, nullability and the optional metadata map
\* (keys FIELD_ID and TAG).
NoMetadata == [some |-> FALSE, field_id |-> <<>>, tag |-> ""]
ArrowField_new(name, data_type, is_nullable) ==
    [name |-> name, data_type |-> data_type, nullable |-> is_nullable,
     metadata |-> NoMetadata]

\* impl From<&TableColumn> for ArrowField.
ArrowField_from(c) ==
    [ArrowField_new(c.name, ArrowDataType_from(c.column_type), nullable(c))
        EXCEPT !.metadata = [some |-> TRUE,
                             field_id |-> u32_to_string(c.id),
                             tag |-> bool_to_string(is_tag(c.column_type))]]

\* The columns converted: every column type, under a few ids and names.
TypeColumns ==
    {TableColumn_new(id, n, t, "Default") :
        id \in 0..MaxId, n \in ColumnNames, t \in ColumnTypes}

\* Physical fields that did not come from a TableColumn.
ExternalFields ==
    {ArrowField_new(n, a, TRUE) : n \in ColumnNames, a \in ArrowDataTypes}

\* conv: the column converted (if any), the physical field and the column
\* type read back from the field's data type.
NoField == ArrowField_new("", "Null", FALSE)
NoBack == [ok |-> FALSE, value |-> NoColumnType, err |-> ""]
NoConversion ==
    [stage |-> "none", column |-> None, field |-> NoField, back |-> NoBack]
ConversionInputs ==
    {[stage |-> "column", column |-> Some(c), field |-> NoField,
      back |-> NoBack] : c \in TypeColumns}
    \cup {[stage |-> "arrow", column |-> None, field |-> f, back |-> NoBack] :
            f \in ExternalFields}

\* ArrowField::from(&column).
ToArrowField ==
    /\ conv.stage = "column"
    /\ conv' = [conv EXCEPT !.stage = "arrow",
                            !.field = ArrowField_from(conv.column.col)]
    /\ UNCHANGED <<allDispatcherVars, schema, lastCall, dur, ddl>>

\* ColumnType::try_from(field.data_type()).
TryFromArrow ==
    /\ conv.stage = "arrow"
    /\ conv' = [conv EXCEPT !.stage = "back",
                            !.back = ColumnType_try_from(conv.field.data_type)]
    /\ UNCHANGED <<allDispatcherVars, schema, lastCall, dur, ddl>>

\* ------------------------------------------------------------- Duration
\* A text is a sequence of characters; TextChars are the characters tried:
\* digits, unit letters in both cases, a letter that is no unit, the signs,
\* and one character of two UTF-8 bytes.
TextChars == {"0", "1", "7", "d", "H", "m", "x", "+", "-", "é"}
RECURSIVE Texts(_)
Texts(n) ==
    IF n = 0 THEN {<<>>}
    ELSE Texts(n - 1)
         \cup {Append(t, c) : t \in {u \in Texts(n - 1) : Len(u) = n - 1},
                              c \in TextChars}

\* Bytes of a character in UTF-8, and str::len (the length in bytes).
len_utf8(c) == IF c = "é" THEN 2 ELSE 1
RECURSIVE str_len(_)
str_len(text) ==
    IF text = <<>> THEN 0
    ELSE str_len(SubSeq(text, 1, Len(text) - 1)) + len_utf8(text[Len(text)])

\* str::is_char_boundary(i): i is where some prefix of characters ends.
is_char_boundary(text, i) ==
    \E k \in 0..Len(text) : str_len(SubSeq(text, 1, k)) = i

\* &text[..i] and &text[i..] for i on a character boundary.
CharsBefore(text, i) ==
    CHOOSE k \in 0..Len(text) : str_len(SubSeq(text, 1, k)) = i
slice_to(text, i) == SubSeq(text, 1, CharsBefore(text, i))
slice_from(text, i) == SubSeq(text, CharsBefore(text, i) + 1, Len(text))

\* str::parse::<u64>: an optional '+', then one or more decimal digits; the
\* texts of this model are too short to overflow 64 bits.
DigitChars == {"0", "1", "2", "3", "4", "5", "6", "7", "8", "9"}
DigitValue(c) == CHOOSE v \in 0..9 : Digits[v + 1] = c
RECURSIVE DecimalValue(_)
DecimalValue(ds) ==
    IF ds = <<>> THEN 0
    ELSE DecimalValue(SubSeq(ds, 1, Len(ds) - 1)) * 10
         + DigitValue(ds[Len(ds)])
ParseErr == [ok |-> FALSE, v |-> 0]
parse_u64(text) ==
    LET ds == IF text # <<>> /\ text[1] = "+"
              THEN SubSeq(text, 2, Len(text)) ELSE text
    IN  IF ds # <<>> /\ \A i \in 1..Len(ds) : ds[i] \in DigitChars
        THEN [ok |-> TRUE, v |-> DecimalValue(ds)]
        ELSE ParseErr

\* str::to_uppercase on the characters tried.
to_uppercase(text) ==
    [i \in 1..Len(text) |->
        CASE text[i] = "d" -> "D"
          [] text[i] = "h" -> "H"
          [] text[i] = "m" -> "M"
          [] text[i] = "x" -> "X"
          [] text[i] = "é" -> "É"
          [] OTHER -> text[i]]

\* Option<Duration>, and the panic of a slice off a character boundary.
DurationUnits == {"Minutes", "Hour", "Day"}
NoneDuration == [kind |-> "None", time_num |-> 0, unit |-> "-"]
SomeDuration(n, u) == [kind |-> "Some", time_num |-> n, unit |-> u]
Panic == [kind |-> "Panic", time_num |-> 0, unit |-> "-"]

\* Duration::new(text).
Duration_new(text) ==
    IF text = <<>> THEN NoneDuration
    ELSE
    LET len == str_len(text)
        whole == parse_u64(text)
    IN  IF whole.ok THEN SomeDuration(whole.v, "Day")
        ELSE IF ~is_char_boundary(text, len - 1) THEN Panic
        ELSE
        LET time == slice_to(text, len - 1)
            unit == slice_from(text, len - 1)
            time_num == parse_u64(time)
            upper == to_uppercase(unit)
        IN  IF ~time_num.ok THEN NoneDuration
            ELSE IF upper = <<"D">> THEN SomeDuration(time_num.v, "Day")
            ELSE IF upper = <<"H">> THEN SomeDuration(time_num.v, "Hour")
            ELSE IF upper = <<"M">> THEN SomeDuration(time_num.v, "Minutes")
            ELSE NoneDuration

\* dur: the text handed to Duration::new and what the call gave.
NotCalled == [kind |-> "-", time_num |-> 0, unit |-> "-"]
NoDuration == [stage |-> "none", text |-> <<>>, result |-> NotCalled]

DurationNew ==
    /\ dur.stage = "text"
    /\ dur' = [dur EXCEPT !.stage = "done", !.result = Duration_new(dur.text)]
    /\ UNCHANGED <<allDispatcherVars, schema, lastCall, conv, ddl>>

\* --------------------------------------------------------- DDL execution
\* The DDLPlan variants matched by create_task, and the sub-plans they carry
\* (ShowDatabases carries none).
DDLPlanVariants ==
    {"CreateExternalTable", "Drop", "CreateTable", "CreateDatabase",
     "DescribeDatabase", "DescribeTable", "ShowTables", "ShowDatabases"}
SubPlans == {"sub_plan_a", "sub_plan_b", "sub_plan_c"}
NoSubPlan == "-"
DDLPlan(variant, sub_plan) == [variant |-> variant, sub_plan |-> sub_plan]
DDLPlans ==
    {DDLPlan(v, p) : v \in DDLPlanVariants \ {"ShowDatabases"}, p \in SubPlans}
    \cup {DDLPlan("ShowDatabases", NoSubPlan)}

\* A boxed DDLDefinitionTask: which task type, built from which sub-plan.
Task(task, sub_plan) == [task |-> task, sub_plan |-> sub_plan]

create_task_describe(plan) ==
    CASE plan.variant = "CreateExternalTable" ->
            Task("CreateExternalTableTask", plan.sub_plan)
      [] plan.variant = "Drop" -> Task("DropObjectTask", plan.sub_plan)
      [] plan.variant = "CreateTable" -> Task("CreateTableTask", plan.sub_plan)
      [] plan.variant = "CreateDatabase" ->
            Task("CreateDatabaseTask", plan.sub_plan)
      [] plan.variant = "DescribeDatabase" ->
            Task("DescribeDatabaseTask", plan.sub_plan)
      [] plan.variant = "DescribeTable" ->
            Task("DescribeDatabaseTask", plan.sub_plan)
      [] plan.variant = "ShowTables" -> Task("ShowTablesTask", plan.sub_plan)
      [] plan.variant = "ShowDatabases" -> Task("ShowDatabasesTask", NoSubPlan)

\* DDLDefinitionTaskFactory::create_task: one arm per variant, no wildcard.
create_task(plan) ==
    CASE plan.variant = "CreateExternalTable" ->
            Task("CreateExternalTableTask", plan.sub_plan)
      [] plan.variant = "Drop" -> Task("DropObjectTask", plan.sub_plan)
      [] plan.variant = "CreateTable" -> Task("CreateTableTask", plan.sub_plan)
      [] plan.variant = "CreateDatabase" ->
            Task("CreateDatabaseTask", plan.sub_plan)
      [] plan.variant = "DescribeDatabase" ->
            Task("DescribeDatabaseTask", plan.sub_plan)
      [] plan.variant = "DescribeTable" ->
            Task("DescribeTableTask", plan.sub_plan)
      [] plan.variant = "ShowTables" -> Task("ShowTablesTask", plan.sub_plan)
      [] plan.variant = "ShowDatabases" -> Task("ShowDatabasesTask", NoSubPlan)

\* Result<Output, ExecutionError> of DDLDefinitionTask::execute: the task's
\* answer is the task's own business, so every answer is tried.
TaskOutputs == {"Nil", "StreamData"}
ExecutionCauses == {"External", "Metadata"}
NoTaskResult == [ok |-> FALSE, out |-> "-", cause |-> ""]
TaskResults ==
    {[ok |-> TRUE, out |-> o, cause |-> ""] : o \in TaskOutputs}
    \cup {[ok |-> FALSE, out |-> "-", cause |-> c] : c \in ExecutionCauses}

\* .context(query::ExecutionSnafu): Ok passes, Err(cause) becomes
\* QueryError::Execution { source: cause }.
context(r) ==
    IF r.ok THEN Ok(<<r.out>>) ELSE Err("Execution", r.cause)

\* ddl: the plan of a DDLExecution, the tasks start has created and executed,
\* the answer of the task and what start returned.
NoPlan == DDLPlan("-", NoSubPlan)
NoExecution ==
    [stage |-> "none", plan |-> NoPlan, created |-> <<>>, executed |-> <<>>,
     task_result |-> NoTaskResult, result |-> NoResult]

\* start, first half: self.task_factory.create_task().
CreateTask ==
    /\ ddl.stage = "start"
    /\ ddl' = [ddl EXCEPT !.stage = "created",
                          !.created = Append(@, create_task(ddl.plan))]
    /\ UNCHANGED <<allDispatcherVars, schema, lastCall, conv, dur>>

\* start, second half: .execute(query_state_machine).await on the task just
\* created, with the task answering r, then .context(..) and return.
Execute(r) ==
    /\ ddl.stage = "created"
    /\ ddl' = [ddl EXCEPT !.stage = "returned",
                          !.executed = Append(@, ddl.created[Len(ddl.created)]),
                          !.task_result = r,
                          !.result = context(r)]
    /\ UNCHANGED <<allDispatcherVars, schema, lastCall, conv, dur>>

\* --------------------------------------------------------- specification
InitDispatcher ==
    /\ builder = BuilderDefault
    /\ limitSupplied = FALSE
    /\ dispatcher = NoResult
    /\ limit = 0
    /\ permits = 0
    /\ pc = [q \in Queries |-> "idle"]
    /\ held = [q \in Queries |-> FALSE]
    /\ session = [q \in Queries |-> "none"]
    /\ parserCalls = [q \in Queries |-> 0]
    /\ stmts = [q \in Queries |-> <<>>]
    /\ idx = [q \in Queries |-> 0]
    /\ results = [q \in Queries |-> <<>>]
    /\ trackers = [q \in Queries |-> <<>>]
    /\ planCalls = [q \in Queries |-> 0]
    /\ execCalls = [q \in Queries |-> 0]
    /\ failure = [q \in Queries |-> NoFailure]
    /\ ret = [q \in Queries |-> NoResult]

Init ==
    /\ InitDispatcher
    /\ schema = TskvTableSchema_default
    /\ lastCall = NoCall
    /\ conv = NoConversion
    /\ dur = NoDuration
    /\ ddl = NoExecution

Next ==
    \/ with_metadata
    \/ with_session_factory
    \/ with_parser
    \/ with_optimizer
    \/ with_scheduler
    \/ \E l \in 0..MaxLimit : with_queries_limit(l)
    \/ build
    \/ \E q \in Queries : TryAcquire(q)
    \/ \E q \in Queries : Parse(q)
    \/ \E q \in Queries : BeginStatement(q)
    \/ \E q \in Queries : BeginAnalyze(q)
    \/ \E q \in Queries : Plan(q)
    \/ \E q \in Queries : StartExecution(q)
    \/ \E q \in Queries : FinishExecution(q)
    \/ \E q \in Queries : ReturnOk(q)

Spec == Init /\ [][Next]_vars

\* The table schema on its own: built once with new, then columns appended.
NextSchema ==
    \/ \E cols \in ColumnLists(MaxNewCols) : New(cols)
    \/ \E col \in SchemaColumns : AddColumn(col)

SpecSchema == Init /\ [][NextSchema]_vars

\* The type mapping on its own: a column converted to its physical field and
\* the column type read back, or a physical field from elsewhere read back.
InitTypes ==
    /\ InitDispatcher
    /\ schema = TskvTableSchema_default
    /\ lastCall = NoCall
    /\ conv \in ConversionInputs
    /\ dur = NoDuration
    /\ ddl = NoExecution

NextTypes ==
    \/ ToArrowField
    \/ TryFromArrow

SpecTypes == InitTypes /\ [][NextTypes]_vars

\* Duration::new on its own, called once on a text.
InitDuration ==
    /\ InitDispatcher
    /\ schema = TskvTableSchema_default
    /\ lastCall = NoCall
    /\ conv = NoConversion
    /\ dur \in {[stage |-> "text", text |-> t, result |-> NotCalled] :
                    t \in Texts(MaxTextLen)}
    /\ ddl = NoExecution

NextDuration == DurationNew

SpecDuration == InitDuration /\ [][NextDuration]_vars

\* DDLExecution::start on its own, called once on a DDLExecution of any plan.
InitDDL ==
    /\ InitDispatcher
    /\ schema = TskvTableSchema_default
    /\ lastCall = NoCall
    /\ conv = NoConversion
    /\ dur = NoDuration
    /\ ddl \in {[NoExecution EXCEPT !.stage = "start", !.plan = p] :
                    p \in DDLPlans}

NextDDL ==
    \/ CreateTask
    \/ \E r \in TaskResults : Execute(r)

SpecDDL == InitDDL /\ [][NextDDL]_vars

\* ------------------------------------------------------------ properties
Last(h) == h[Len(h)]

\* Calls that have attempted admission, calls that were rejected, admitted
\* calls that have not returned, and admitted calls that have returned.
Attempted == {q \in Queries : pc[q] # "idle"}
Rejected == {q \in Queries : pc[q] = "done" /\ ret[q].kind = "RequestLimit"}
InFlight == {q \in Queries : pc[q] \notin {"idle", "done"}}
Finished == {q \in Queries : pc[q] = "done" /\ ret[q].kind # "RequestLimit"}

\* C1: when exactly limit+1 calls have attempted admission and no admitted one
\* has returned yet, exactly one of them got RequestLimit and the other
\* `limit` are admitted, whatever the order of the attempts.
C1_AdmissionCount ==
    (Built /\ Cardinality(Attempted) = limit + 1 /\ Finished = {})
        => /\ Cardinality(Rejected) = 1
           /\ Cardinality(InFlight) = limit
           /\ \A q \in InFlight : held[q]

C1_Witness ==
    /\ Built
    /\ limit >= 1
    /\ Cardinality(Attempted) = limit + 1
    /\ Finished = {}
    /\ Cardinality(Rejected) = 1

\* C2: in every state the number of admitted calls that have not returned is at
\* most the limit, and together with the free permits it is exactly the limit.
C2_PermitConservation ==
    /\ Cardinality(InFlight) <= limit
    /\ Cardinality(InFlight) + permits = limit

C2_Witness ==
    /\ Built
    /\ limit >= 2
    /\ Cardinality(InFlight) = limit
    /\ permits = 0

\* The permit of an admitted call is held exactly while the call is running,
\* and all permits are free when no call is running.
PermitHeldWhileRunning ==
    /\ \A q \in Queries : held[q] <=> (q \in InFlight)
    /\ (InFlight = {}) => permits = limit

\* A call that attempts admission while no call is running is admitted (the
\* dispatcher being one whose limit was set with with_queries_limit).
AdmittedWhenQuiet ==
    \A q \in Queries :
        (InFlight = {} /\ limitSupplied /\ pc[q] = "idle" /\ pc'[q] # "idle")
            => pc'[q] = "admitted"

\* The same, for a dispatcher built with a limit of at least one.
AdmittedWhenQuietAndLimited ==
    \A q \in Queries :
        (InFlight = {} /\ limit >= 1 /\ pc[q] = "idle" /\ pc'[q] # "idle")
            => pc'[q] = "admitted"

\* C3 as stated: an admitted call holds its permit until it returns and gives
\* it back on every exit path, all permits are free once every call has
\* returned, and a later call is admitted.
C3_Original == [](PermitHeldWhileRunning) /\ [][AdmittedWhenQuiet]_vars

\* C3 amended: the same, the later call being admitted when the limit is at
\* least one.
C3_PermitReleased ==
    [](PermitHeldWhileRunning) /\ [][AdmittedWhenQuietAndLimited]_vars

C3_Witness ==
    \E q1, q2 \in Queries :
        /\ limit = 1
        /\ pc[q1] = "done"
        /\ ret[q1].kind \in {"Parser", "LogicalPlanner", "Execution"}
        /\ pc[q2] = "admitted"

\* A call that got RequestLimit did nothing else.
RejectedDidNothing ==
    \A q \in Queries :
        ret[q].kind = "RequestLimit"
            => /\ pc[q] = "done"
               /\ session[q] = "none"
               /\ parserCalls[q] = 0
               /\ planCalls[q] = 0
               /\ execCalls[q] = 0
               /\ stmts[q] = <<>>
               /\ trackers[q] = <<>>
               /\ results[q] = <<>>
               /\ failure[q] = NoFailure

\* An attempt that finds no permit returns RequestLimit in that very step, and
\* RequestLimit is returned by no other step.
RejectedAtOnce ==
    \A q \in Queries :
        /\ (pc[q] = "idle" /\ permits = 0 /\ pc'[q] # "idle")
              => (pc'[q] = "done" /\ ret'[q].kind = "RequestLimit")
        /\ (ret[q].kind # "RequestLimit" /\ ret'[q].kind = "RequestLimit")
              => (pc[q] = "idle" /\ permits = 0)

\* C4: with no free permit execute_query fails at once with RequestLimit,
\* without waiting and without creating a session, parsing, planning or
\* executing; RequestLimit is returned for admission rejection only.
C4_HardReject == [](RejectedDidNothing) /\ [][RejectedAtOnce]_vars

C4_Witness ==
    \E q1, q2 \in Queries :
        /\ limit >= 1
        /\ ret[q1].kind = "RequestLimit"
        /\ pc[q2] = "executing"

\* C5: what execute_query returns is an error without outputs, or Ok with one
\* output per parsed statement, the i-th being the output of the i-th
\* statement; after a failure it is never Ok.
C5_AllOrNothing ==
    \A q \in Queries :
        pc[q] = "done"
            => /\ ret[q].kind \in QueryError \cup {"Ok"}
               /\ ret[q].kind # "Ok" => ret[q].outputs = <<>>
               /\ failure[q].stage # "none" => ret[q].kind # "Ok"
               /\ ret[q].kind = "Ok"
                     => /\ Len(ret[q].outputs) = Len(stmts[q])
                        /\ \A i \in 1..Len(stmts[q]) :
                              ret[q].outputs[i] = Output(stmts[q][i])

C5_Witness ==
    \E q \in Queries :
        /\ pc[q] = "done"
        /\ failure[q] = [stage |-> "exec", at |-> 2]
        /\ Len(results[q]) = 1
        /\ ret[q].kind = "Execution"

\* C6: after the first failure of a call nothing more is done for it: a parse
\* failure leaves no statement planned or executed; a planning failure of
\* statement k leaves k statements planned and k-1 handed to the execution
\* factory; an execution failure of statement k leaves k planned and k
\* executed; the error returned is the one of that first failing stage.
C6_StopAtFirstFailure ==
    \A q \in Queries :
        /\ failure[q].stage # "none" => pc[q] = "done"
        /\ failure[q].stage = "parse"
              => /\ ret[q].kind = "Parser"
                 /\ planCalls[q] = 0
                 /\ execCalls[q] = 0
                 /\ trackers[q] = <<>>
        /\ failure[q].stage = "plan"
              => /\ ret[q].kind = "LogicalPlanner"
                 /\ planCalls[q] = failure[q].at
                 /\ execCalls[q] = failure[q].at - 1
                 /\ Len(trackers[q]) = failure[q].at
        /\ failure[q].stage = "exec"
              => /\ ret[q].kind \in ExecutionErrors
                 /\ planCalls[q] = failure[q].at
                 /\ execCalls[q] = failure[q].at
                 /\ Len(trackers[q]) = failure[q].at

C6_Witness ==
    \E q \in Queries :
        /\ failure[q] = [stage |-> "plan", at |-> 1]
        /\ Len(stmts[q]) = 2
        /\ ret[q].kind = "LogicalPlanner"

\* The states a tracker goes through for a statement that succeeds.
Lifecycle == <<"Created", "Analyzing", "Analyzed", "Executing", "Succeeded">>

NoRepeat(h) == \A i, j \in 1..Len(h) : h[i] = h[j] => i = j

\* C7: a call works on one statement at a time in textual order: the tracker of
\* statement i+1 exists only when statement i has succeeded and its output is
\* in the results, every statement begun has a tracker of its own that starts
\* at Created and is marked with no state twice, and the outputs collected so
\* far are those of the first statements in order.
C7_Sequential ==
    \A q \in Queries :
        /\ Len(trackers[q]) = idx[q]
        /\ idx[q] <= Len(stmts[q])
        /\ Len(results[q]) <= idx[q]
        /\ \A i \in 1..Len(trackers[q]) :
              /\ trackers[q][i][1] = "Created"
              /\ NoRepeat(trackers[q][i])
              /\ i < Len(trackers[q])
                    => /\ Last(trackers[q][i]) = "Succeeded"
                       /\ Len(results[q]) >= i
        /\ \A i \in 1..Len(results[q]) : results[q][i] = Output(stmts[q][i])

C7_Witness ==
    \E q1, q2 \in Queries :
        /\ q1 # q2
        /\ pc[q1] = "analyzing"
        /\ Len(trackers[q1]) = 2
        /\ pc[q2] = "executing"
        /\ Len(trackers[q2]) = 2

C9_FailedOnFailure ==
    \A q \in Queries :
        failure[q].stage \in {"plan", "exec"}
            => Last(trackers[q][failure[q].at]) = "Failed"

\* C10: build succeeds only when all five collaborators and the concurrency
\* limit were supplied to the builder.
C10_BuildRequiresAll ==
    Built => /\ builder.metadata
             /\ builder.session_factory
             /\ builder.parser
             /\ builder.optimizer
             /\ builder.scheduler
             /\ limitSupplied

\* ------------------------------------------------- properties of the schema
HasName(s, n) == \E i \in 1..Len(s.columns) : s.columns[i].name = n

\* Appending a column whose name the list already has changes nothing, and
\* appending any column a second time changes nothing more.
AddExistingChangesNothing ==
    \A c \in SchemaColumns :
        /\ HasName(schema, c.name)
              => /\ add_column(schema, c).columns = schema.columns
                 /\ add_column(schema, c).columns_index = schema.columns_index
                 /\ column(add_column(schema, c), c.name) = column(schema, c.name)
        /\ add_column(add_column(schema, c), c) = add_column(schema, c)

\* The same of the call as it happens.
AddExistingStep ==
    (lastCall'.op = "add_column" /\ lastCall'.existed /\ lastCall' # lastCall)
        => schema' = schema

\* C11: add_column with a column whose name is already present leaves the
\* column list, the index and the position of the existing column unchanged
\* and discards the new column; applying the same add_column twice gives the
\* same schema as applying it once.
C11_AddExistingNoOp == [](AddExistingChangesNothing) /\ [][AddExistingStep]_vars

C11_Witness ==
    /\ lastCall = [op |-> "add_column", existed |-> TRUE]
    /\ Len(schema.columns) = 2
    /\ schema.columns[1].name # schema.columns[2].name

\* The positions of the field columns in the list, and their ids.
FieldPositions(s) ==
    {i \in 1..Len(s.columns) : s.columns[i].column_type.kind = "Field"}
FieldIdSet(s) == {s.columns[i].id : i \in FieldPositions(s)}
DistinctFieldIds(s) ==
    \A i, j \in FieldPositions(s) : s.columns[i].id = s.columns[j].id => i = j

\* fields_id is the map from the ids of the field columns onto 0..k-1, k the
\* number of field columns, that sends each id to its rank.
DenseRanks(s) ==
    LET m == fields_id(s)
        k == Cardinality(FieldPositions(s))
    IN /\ field_num(s) = k
       /\ DOMAIN m = FieldIdSet(s)
       /\ {m[x] : x \in DOMAIN m} = 0..(k - 1)
       /\ \A x \in DOMAIN m : m[x] = Cardinality({y \in FieldIdSet(s) : y < x})

Reverse(l) == [i \in 1..Len(l) |-> l[Len(l) + 1 - i]]

\* C13 as stated: for every schema (of columns with distinct names),
\* fields_id maps the ids of exactly the field columns onto 0..k-1 by
\* ascending id, k being field_num().
C13_Original ==
    (\A i, j \in 1..Len(schema.columns) :
        schema.columns[i].name = schema.columns[j].name => i = j)
        => DenseRanks(schema)

\* C13 amended: the same when the field columns have pairwise distinct ids;
\* in every case field_num() counts the field columns, the map is defined on
\* exactly their ids and does not depend on the order of the columns.
C13_FieldsIdRanks ==
    /\ DistinctFieldIds(schema) => DenseRanks(schema)
    /\ field_num(schema) = Cardinality(FieldPositions(schema))
    /\ DOMAIN fields_id(schema) = FieldIdSet(schema)
    /\ fields_id([schema EXCEPT !.columns = Reverse(@)]) = fields_id(schema)

C13_Witness ==
    /\ lastCall = [op |-> "add_column", existed |-> FALSE]
    /\ Len(schema.columns) = 3
    /\ schema.columns[1].column_type = Tag
    /\ schema.columns[2].column_type.kind = "Field"
    /\ schema.columns[3].column_type.kind = "Field"
    /\ schema.columns[2].id > schema.columns[3].id
    /\ fields_id(schema)[schema.columns[3].id] = 0

\* C15: in every schema made by new and add_column the column names are
\* unique, the index has one entry per column, and every indexed name points
\* inside the list at the column of that name, which column(name) and
\* column_by_index(column_index(name)) both return.
C15_IndexConsistent ==
    LET cols == schema.columns
        index == schema.columns_index
    IN /\ \A i, j \in 1..Len(cols) : cols[i].name = cols[j].name => i = j
       /\ Cardinality(DOMAIN index) = Len(cols)
       /\ DOMAIN index = {cols[i].name : i \in 1..Len(cols)}
       /\ \A n \in DOMAIN index :
             /\ index[n] < Len(cols)
             /\ cols[index[n] + 1].name = n
             /\ column(schema, n) = Some(cols[index[n] + 1])
             /\ \A i \in column_index(schema, n) :
                   column_by_index(schema, i) = column(schema, n)

\* --------------------------------------------- properties of the type mapping
RecoverableValueTypes == {"Float", "Integer", "Unsigned", "Boolean", "String"}
Unsupported == TypeErr("Error field type not supported")
RoundTripDone == conv.stage = "back" /\ conv.column.some
RoundTripType == conv.column.col.column_type

\* C12 as stated: every Field(v) comes back unchanged, Tag and Time fail with
\* the unsupported-type error on the way back, and the reverse conversion
\* never yields Tag or Time.
C12_Original ==
    /\ RoundTripDone =>
        /\ RoundTripType.kind = "Field" => conv.back = TypeOk(RoundTripType)
        /\ RoundTripType \in {Tag, Time} => conv.back = Unsupported
    /\ conv.stage = "back" => conv.back.value \notin {Tag, Time}

\* C12: Field(v) converted to its physical type and back is Field(v) for the
\* five value types Float, Integer, Unsigned, Boolean and String;
\* Field(Unknown) and Time fail on the way back with the unsupported-type
\* error; Tag comes back as Field(String); the reverse conversion of any
\* physical type either fails with that error or yields Field(v) for one of the
\* five value types, never Tag or Time.
C12_RoundTrip ==
    /\ RoundTripDone =>
        /\ (RoundTripType.kind = "Field"
                /\ RoundTripType.value \in RecoverableValueTypes)
            => conv.back = TypeOk(RoundTripType)
        /\ RoundTripType \in {Field("Unknown"), Time} => conv.back = Unsupported
        /\ RoundTripType = Tag => conv.back = TypeOk(Field("String"))
    /\ conv.stage = "back" =>
        \/ conv.back = Unsupported
        \/ /\ conv.back.ok
           /\ conv.back.value.kind = "Field"
           /\ conv.back.value.value \in RecoverableValueTypes
    /\ \A a \in ArrowDataTypes :
        LET r == ColumnType_try_from(a)
        IN  /\ r.value \notin {Tag, Time}
            /\ r.ok <=> \E v \in RecoverableValueTypes :
                            a = ArrowDataType_from(Field(v))

C12_Witness ==
    /\ RoundTripDone
    /\ RoundTripType = Field("Integer")
    /\ conv.field.data_type = "Int64"
    /\ conv.back = TypeOk(Field("Integer"))

\* ------------------------------------------------- properties of Duration
UnitLetters == {"d", "h", "m", "D", "H", "M"}
AllDigits(t) == t # <<>> /\ \A i \in 1..Len(t) : t[i] \in DigitChars
UnitOf(c) ==
    CASE c \in {"d", "D"} -> "Day"
      [] c \in {"h", "H"} -> "Hour"
      [] c \in {"m", "M"} -> "Minutes"

\* The value the text stands for: digits alone, or digits and a unit letter.
WellFormed(t) ==
    \/ AllDigits(t)
    \/ /\ Len(t) >= 2
       /\ t[Len(t)] \in UnitLetters
       /\ AllDigits(SubSeq(t, 1, Len(t) - 1))
Expected(t) ==
    IF AllDigits(t) THEN SomeDuration(DecimalValue(t), "Day")
    ELSE SomeDuration(DecimalValue(SubSeq(t, 1, Len(t) - 1)),
                      UnitOf(t[Len(t)]))

\* C14 as stated: Duration::new(text) yields a value exactly when text is a
\* non-empty decimal integer optionally followed by one unit letter d, h or m
\* in either case (bare integer: unit Day; with a letter: Day, Hour or
\* Minutes); every other text yields no value; the magnitude of a returned
\* Duration is positive.
C14_DurationNew ==
    dur.stage = "done" =>
        /\ WellFormed(dur.text) => dur.result = Expected(dur.text)
        /\ ~WellFormed(dur.text) => dur.result = NoneDuration
        /\ dur.result.kind = "Some" => dur.result.time_num > 0

\* What Duration::new does on the texts tried: a panic exactly when the text
\* is not a u64 and ends in a character of more than one byte.
DurationNewPanics ==
    dur.stage = "done" =>
        (dur.result = Panic
            <=> /\ dur.text # <<>>
                /\ ~parse_u64(dur.text).ok
                /\ len_utf8(dur.text[Len(dur.text)]) > 1)

\* ------------------------------------------- properties of the DDL dispatch
\* The task named after each plan variant.
TaskNamed ==
    [v \in DDLPlanVariants |->
        CASE v = "CreateExternalTable" -> "CreateExternalTableTask"
          [] v = "Drop" -> "DropObjectTask"
          [] v = "CreateTable" -> "CreateTableTask"
          [] v = "CreateDatabase" -> "CreateDatabaseTask"
          [] v = "DescribeDatabase" -> "DescribeDatabaseTask"
          [] v = "DescribeTable" -> "DescribeTableTask"
          [] v = "ShowTables" -> "ShowTablesTask"
          [] v = "ShowDatabases" -> "ShowDatabasesTask"]

\* C16: for each of the eight DDLPlan variants start creates exactly one task,
\* the one named after the variant and built from the plan's sub-plan, and
\* executes that task once and no other; different variants get different
\* tasks; creating a task is possible for every plan; a task's output is
\* returned as it is and a task's error is returned as the Execution error
\* with the task's error as its source.
C16_DispatchTotal ==
    /\ Cardinality(DDLPlanVariants) = 8
    /\ \A v, w \in DDLPlanVariants : TaskNamed[v] = TaskNamed[w] => v = w
    /\ ddl.stage = "start" =>
        /\ ddl.plan \in DDLPlans
        /\ ENABLED CreateTask
        /\ ddl.created = <<>> /\ ddl.executed = <<>>
    /\ ddl.stage \in {"created", "returned"} =>
        ddl.created = <<Task(TaskNamed[ddl.plan.variant], ddl.plan.sub_plan)>>
    /\ ddl.stage = "created" => ddl.executed = <<>>
    /\ ddl.stage = "returned" =>
        /\ ddl.executed = ddl.created
        /\ ddl.task_result.ok =>
            /\ ddl.result.kind = "Ok"
            /\ ddl.result.outputs = <<ddl.task_result.out>>
        /\ ~ddl.task_result.ok =>
            /\ ddl.result.kind = "Execution"
            /\ ddl.result.err = ddl.task_result.cause
            /\ ddl.result.outputs = <<>>

C16_Witness ==
    /\ ddl.stage = "returned"
    /\ ddl.plan.variant = "DescribeTable"
    /\ ddl.executed = <<Task("DescribeTableTask", ddl.plan.sub_plan)>>
    /\ ddl.result = Err("Execution", "Metadata")

====
